---- MODULE Spec2Model ----
(***************************************************************************)
(* Model of pricing/regime_downside/python/solve_lp.py:                    *)
(* solve_portfolio_lp(problem_file, solution_file).                        *)
(*                                                                         *)
(* Numbers.  Weights (w, w_c, z, prev_weights, prev_cash) are integers     *)
(* counted in grid steps of 1/Unit, so the weight 1.0 is the integer Unit. *)
(* Scenario returns, lpm_threshold, betas and beta_target are integers.    *)
(* The slacks s_lpm, u, eta (return x weight) and v (beta x weight) carry  *)
(* the factor Unit of the weights they are bounded by.  cvar_alpha is the  *)
(* fraction cvar_alpha / AlphaDen.  The objective and the four component   *)
(* metrics are stored multiplied by Scale(prob) = T * |AlphaDen - alpha|,  *)
(* the common denominator of lines 121-124 and 170-171, so that they stay  *)
(* integers; the factor is positive and the same for every point of one    *)
(* problem.                                                                *)
(***************************************************************************)
EXTENDS Integers, Sequences, FiniteSets, TLC

VARIABLES pc, prob, calls, status, primal, solution, solution_file, exc,
          other, other_file, fs, bt

vars == <<pc, prob, calls, status, primal, solution, solution_file, exc,
          other, other_file, fs, bt>>

(***************************************************************************)
(* Bounds of the model.                                                    *)
(***************************************************************************)
MaxN == 2
MaxT == 2
Unit == 2
AlphaDen == 5
MaxCombos == 3

(***************************************************************************)
(* Arithmetic helpers.                                                     *)
(***************************************************************************)
Abs(x) == IF x < 0 THEN -x ELSE x

Sgn(x) == IF x < 0 THEN -1 ELSE IF x = 0 THEN 0 ELSE 1

Max2(a, b) == IF a >= b THEN a ELSE b

RECURSIVE SumTo(_, _)
SumTo(f, n) == IF n = 0 THEN 0 ELSE f[n] + SumTo(f, n - 1)

\* np.sum / cp.sum of a vector
Sum(f) == SumTo(f, Len(f))

SetMin(S) == CHOOSE m \in S : \A k \in S : m <= k

SetMax(S) == CHOOSE m \in S : \A k \in S : m >= k

(***************************************************************************)
(* JSON values of the problem file.  lpm_threshold is kept as a tagged     *)
(* value so that a record whose threshold is not a number can be loaded.   *)
(***************************************************************************)
JsonNumber(n) == [num |-> TRUE, val |-> n]

JsonText == [num |-> FALSE, val |-> 0]

(***************************************************************************)
(* The scenario data and betas of the problems the model draws.            *)
(***************************************************************************)
RVal(t, i) == ((i + 2 * t) % 3) - 1

BVal(t) == t % 2

BetaVal(i) == i

Hyper(l1, lc, lb, k, s) ==
    [lambda_lpm1 |-> l1, lambda_cvar |-> lc, lambda_beta |-> lb,
     kappa |-> k, stress_weight |-> s]

\* hyperparameters inside the ranges of the data model
ValidHypers ==
    { Hyper(1, 1, 1, 1, 1), Hyper(0, 1, 1, 1, 1), Hyper(1, 0, 1, 1, 1),
      Hyper(1, 1, 0, 1, 1), Hyper(1, 1, 1, 0, 1), Hyper(1, 1, 1, 1, 0),
      Hyper(0, 0, 0, 1, 1), Hyper(1, 1, 1, 1, 2) }

\* one hyperparameter negative
NegativeHypers ==
    { Hyper(-1, 1, 1, 1, 1), Hyper(1, -1, 1, 1, 1), Hyper(1, 1, -1, 1, 1),
      Hyper(1, 1, 1, -1, 1), Hyper(1, 1, 1, 1, -1) }

ValidAlphas == {1}

BaseAlpha == CHOOSE al \in ValidAlphas : TRUE

BadAlphas == {-1, 0, AlphaDen, AlphaDen + 1}

\* previous portfolios: <<weight of asset 1, prev_cash>>, the other assets 0
PrevPortfolios ==
    { <<a, Unit - a>> : a \in {-1, 0, 1, Unit} } \cup { <<Unit, 1>>, <<0, 0>> }

BasePrev == <<Unit, 0>>

\* the lengths of the six array fields
Shape(N, T) == [prev |-> N, betas |-> N, bench |-> T, cash |-> T, rows |-> T, cols |-> N]

\* the shapes that differ from Shape(N, T) in exactly one field
OffShapes(N, T) ==
    { [Shape(N, T) EXCEPT ![f] = k] :
        f \in {"prev", "betas", "cols"}, k \in (1..MaxN) \ {N} } \cup
    { [Shape(N, T) EXCEPT ![f] = k] :
        f \in {"bench", "cash", "rows"}, k \in (1..MaxT) \ {T} }

MkProblem(N, T, sh, pp, h, alpha, tau) ==
    [n_assets            |-> N,
     n_scenarios         |-> T,
     asset_scenarios     |-> [t \in 1..sh.rows |-> [i \in 1..sh.cols |-> RVal(t, i)]],
     benchmark_scenarios |-> [t \in 1..sh.bench |-> BVal(t)],
     cash_scenarios      |-> [t \in 1..sh.cash |-> 0],
     prev_weights        |-> [i \in 1..sh.prev |-> IF i = 1 THEN pp[1] ELSE 0],
     prev_cash           |-> pp[2],
     asset_betas         |-> [i \in 1..sh.betas |-> BetaVal(i)],
     stress_weight       |-> h.stress_weight,
     lambda_lpm1         |-> h.lambda_lpm1,
     lambda_cvar         |-> h.lambda_cvar,
     lambda_beta         |-> h.lambda_beta,
     kappa               |-> h.kappa,
     lpm_threshold       |-> tau,
     cvar_alpha          |-> alpha,
     beta_target         |-> 1]

Dims == (1..MaxN) \X (1..MaxT)

\* The problem of the worked example: N = 2, T = 3, returns in hundredths,
\* betas and beta_target in tenths, cvar_alpha = 4/AlphaDen (0.8), prev_weights
\* the two halves of Unit.  The objective weights are 1000 times the terms of
\* lines 121-130 in these units: lambda_lpm1 1 -> 10, lambda_cvar 0.5 -> 5,
\* kappa 0.1 -> 100, lambda_beta 1 -> 100.
Scenario ==
    [n_assets            |-> 2,
     n_scenarios         |-> 3,
     asset_scenarios     |-> << <<1, -2>>, <<3, 1>>, <<-1, 4>> >>,
     benchmark_scenarios |-> <<0, 2, 1>>,
     cash_scenarios      |-> <<0, 0, 0>>,
     prev_weights        |-> <<Unit \div 2, Unit - (Unit \div 2)>>,
     prev_cash           |-> 0,
     asset_betas         |-> <<10, 5>>,
     stress_weight       |-> 1,
     lambda_lpm1         |-> 10,
     lambda_cvar         |-> 5,
     lambda_beta         |-> 100,
     kappa               |-> 100,
     lpm_threshold       |-> JsonNumber(0),
     cvar_alpha          |-> 4,
     beta_target         |-> 6]

\* the problem files the model reads
Problems ==
    { MkProblem(d[1], d[2], Shape(d[1], d[2]), pp, h, al, JsonNumber(0)) :
        d \in Dims, pp \in PrevPortfolios, h \in ValidHypers, al \in ValidAlphas } \cup
    { Scenario } \cup
    { MkProblem(d[1], d[2], Shape(d[1], d[2]), BasePrev, h, BaseAlpha, JsonNumber(0)) :
        d \in Dims, h \in NegativeHypers } \cup
    { MkProblem(d[1], d[2], Shape(d[1], d[2]), BasePrev, Hyper(1, 1, 1, 1, 1), al, JsonNumber(0)) :
        d \in Dims, al \in BadAlphas } \cup
    { MkProblem(d[1], d[2], Shape(d[1], d[2]), BasePrev, Hyper(1, 1, 1, 1, 1), BaseAlpha, JsonText) :
        d \in Dims } \cup
    UNION { { MkProblem(d[1], d[2], sh, BasePrev, Hyper(1, 1, 1, 1, 1), BaseAlpha, JsonNumber(0)) :
                sh \in OffShapes(d[1], d[2]) } : d \in Dims }

NoProblem == MkProblem(1, 1, Shape(1, 1), <<0, 0>>, Hyper(0, 0, 0, 0, 0), 0, JsonNumber(0))

(***************************************************************************)
(* Lines 36-42: np.array(...) of a list, and .tolist() back (lines 155,    *)
(* 176, 190).  An array is its shape and its data.                         *)
(***************************************************************************)
NpArray(list) == [shape |-> <<Len(list)>>, data |-> list]

NpMatrix(rows) == [shape |-> <<Len(rows), Len(rows[1])>>, data |-> rows]

ToList(arr) == [k \in 1..arr.shape[1] |-> arr.data[k]]

R(p) == NpMatrix(p.asset_scenarios)

b(p) == NpArray(p.benchmark_scenarios)

r_c(p) == NpArray(p.cash_scenarios)

w_prev(p) == NpArray(p.prev_weights)

betas(p) == NpArray(p.asset_betas)

(***************************************************************************)
(* Shapes of the expressions of lines 77-116.  Elementwise operators       *)
(* broadcast an axis of length 1 (cvxpy follows numpy here); R @ w and     *)
(* betas @ w need equal inner dimensions.                                  *)
(***************************************************************************)
Broadcastable(m, n) == m = n \/ m = 1 \/ n = 1

BroadcastLen(m, n) == Max2(m, n)

\* an element of a vector that is broadcast to a longer one
At(vec, k) == IF Len(vec) = 1 THEN vec[1] ELSE vec[k]

\* length of p = R @ w + r_c * w_c (line 77)
LenP(p) == BroadcastLen(R(p).shape[1], r_c(p).shape[1])

\* length of a = p - b (line 80)
LenA(p) == BroadcastLen(LenP(p), b(p).shape[1])

\* length of delta_w = w - w_prev (line 103)
LenDelta(p) == BroadcastLen(p.n_assets, w_prev(p).shape[1])

\* 1 - alpha, times AlphaDen (line 124)
OneMinusAlpha(p) == AlphaDen - p.cvar_alpha

\* mutant: line 124 divides by (1 - alpha) * (T - 1) instead of (1 - alpha) * T
FormulationError_SampleDenominator(p) ==
    LET N == p.n_assets
        T == p.n_scenarios
    IN  IF R(p).shape[2] # N                                THEN "ValueError"
        ELSE IF ~Broadcastable(R(p).shape[1], r_c(p).shape[1]) THEN "ValueError"
        ELSE IF ~Broadcastable(LenP(p), b(p).shape[1])      THEN "ValueError"
        ELSE IF ~p.lpm_threshold.num                        THEN "ValueError"
        ELSE IF ~Broadcastable(T, LenA(p))                  THEN "ValueError"
        ELSE IF ~Broadcastable(N, w_prev(p).shape[1])       THEN "ValueError"
        ELSE IF betas(p).shape[1] # N                       THEN "ValueError"
        ELSE IF OneMinusAlpha(p) * (T - 1) = 0              THEN "ZeroDivisionError"
        ELSE "none"

(***************************************************************************)
(* Lines 54-139 run outside the try block of line 141: the exception the   *)
(* formulation raises for this problem, or "none".                         *)
(***************************************************************************)
FormulationError(p) ==
    LET N == p.n_assets
        T == p.n_scenarios
    IN  IF R(p).shape[2] # N                                THEN "ValueError"  \* line 77
        ELSE IF ~Broadcastable(R(p).shape[1], r_c(p).shape[1]) THEN "ValueError"  \* line 77
        ELSE IF ~Broadcastable(LenP(p), b(p).shape[1])      THEN "ValueError"  \* line 80
        ELSE IF ~p.lpm_threshold.num                        THEN "ValueError"  \* line 92
        ELSE IF ~Broadcastable(T, LenA(p))                  THEN "ValueError"  \* lines 92, 97
        ELSE IF ~Broadcastable(N, w_prev(p).shape[1])       THEN "ValueError"  \* line 103
        ELSE IF betas(p).shape[1] # N                       THEN "ValueError"  \* line 109
        ELSE IF OneMinusAlpha(p) = 0                        THEN "ZeroDivisionError"  \* line 124
        ELSE "none"

(***************************************************************************)
(* Lines 73-80 and 103-114: the linear expressions.  wp is the pair of     *)
(* primary variables [w, w_c].                                             *)
(***************************************************************************)
RECURSIVE Tabulate(_, _)
\* the vector <<F(1), ..., F(n)>>
Tabulate(F(_), n) == IF n = 0 THEN <<>> ELSE Append(Tabulate(F, n - 1), F(n))

Dot(row, w) == SumTo([i \in 1..Len(w) |-> row[i] * w[i]], Len(w))

\* p = R @ w + r_c * w_c (line 77)
portfolio(p, wp) ==
    LET el(t) == Dot(R(p).data[IF R(p).shape[1] = 1 THEN 1 ELSE t], wp.w)
                    + At(r_c(p).data, t) * wp.w_c
    IN  Tabulate(el, LenP(p))

\* a = p - b (line 80); b is a return, so it is scaled by Unit
active(p, wp) ==
    LET pv == portfolio(p, wp)
        el(t) == At(pv, t) - Unit * At(b(p).data, t)
    IN  Tabulate(el, LenA(p))

\* delta_w = w - w_prev (line 103)
delta_w(p, wp) ==
    LET el(i) == At(wp.w, i) - At(w_prev(p).data, i)
    IN  Tabulate(el, LenDelta(p))

\* portfolio_beta = betas @ w (line 109)
portfolio_beta(p, wp) == Dot(betas(p).data, wp.w)

\* mutant: beta_target left out of the deviation
beta_dev_NoTarget(p, wp) == portfolio_beta(p, wp)

\* beta_dev = portfolio_beta - beta_target (line 114)
beta_dev(p, wp) == portfolio_beta(p, wp) - Unit * p.beta_target

\* tau (line 50), scaled like the active return it is compared with
tau(p) == Unit * p.lpm_threshold.val

(***************************************************************************)
(* Lines 56-71 and 82-116: the domains of the decision variables and the   *)
(* constraints.  a, dw and dev are the values of the expressions a,        *)
(* delta_w and beta_dev at the primary point.                              *)
(***************************************************************************)
NonNeg(vec) == \A k \in 1..Len(vec) : vec[k] >= 0

\* mutant: the full-investment constraint of line 87 left out
FullInvestment_NoBudget(wp) ==
    /\ NonNeg(wp.w)
    /\ wp.w_c >= 0

\* mutant: w and w_c declared without nonneg=True
FullInvestment_NoDomain(wp) == Sum(wp.w) + wp.w_c = Unit

\* (1) full investment, line 87, with w and w_c nonneg (lines 57-58)
FullInvestment(wp) ==
    /\ NonNeg(wp.w)
    /\ wp.w_c >= 0
    /\ Sum(wp.w) + wp.w_c = Unit

\* mutant: line 92 written with the inequality reversed
LpmSlack_Reversed(p, a, s_lpm) ==
    /\ NonNeg(s_lpm)
    /\ \A t \in 1..BroadcastLen(Len(s_lpm), Len(a)) : At(s_lpm, t) <= tau(p) - At(a, t)

\* (2) LPM1 slack constraints, line 92, with s_lpm nonneg (line 61)
LpmSlack(p, a, s_lpm) ==
    /\ NonNeg(s_lpm)
    /\ \A t \in 1..BroadcastLen(Len(s_lpm), Len(a)) : At(s_lpm, t) >= tau(p) - At(a, t)

\* (3) CVaR slack constraints, line 97, with u nonneg (line 65) and eta free (line 64)
CvarSlack(a, eta, u) ==
    /\ NonNeg(u)
    /\ \A t \in 1..BroadcastLen(Len(u), Len(a)) : At(u, t) >= -At(a, t) - eta

\* mutant: the constraint z >= -delta_w of line 105 left out
TurnoverSlack_OneSided(dw, z) ==
    /\ NonNeg(z)
    /\ \A i \in 1..BroadcastLen(Len(z), Len(dw)) : At(z, i) >= At(dw, i)

\* (4) turnover slack constraints, lines 104-105, with z nonneg (line 68)
TurnoverSlack(dw, z) ==
    /\ NonNeg(z)
    /\ \A i \in 1..BroadcastLen(Len(z), Len(dw)) :
          /\ At(z, i) >= At(dw, i)
          /\ At(z, i) >= -At(dw, i)

\* (5) beta penalty slack, lines 115-116, with v nonneg (line 71)
BetaSlack(dev, v) ==
    /\ v >= 0
    /\ v >= dev
    /\ v >= -dev

\* the constraints list of line 139, at the point x
Feasible(p, x) ==
    LET wp == [w |-> x.w, w_c |-> x.w_c]
    IN  /\ FullInvestment(wp)
        /\ LpmSlack(p, active(p, wp), x.s_lpm)
        /\ CvarSlack(active(p, wp), x.eta, x.u)
        /\ TurnoverSlack(delta_w(p, wp), x.z)
        /\ BetaSlack(beta_dev(p, wp), x.v)

(***************************************************************************)
(* Lines 118-135: the objective, multiplied by Scale(p).                   *)
(***************************************************************************)
Scale(p) == p.n_scenarios * Abs(OneMinusAlpha(p))

\* (lambda_lpm1 / T) * sum(s_lpm), line 121
lpm1_term(p, s_lpm) == p.lambda_lpm1 * Abs(OneMinusAlpha(p)) * Sum(s_lpm)

\* mutant: line 124 multiplies sum(u) by (1 - alpha) / T instead of 1 / ((1 - alpha) * T)
cvar_term_TailMultiplied(p, eta, u) ==
    p.lambda_cvar * (p.n_scenarios * AlphaDen * eta + OneMinusAlpha(p) * Sum(u))

\* lambda_cvar * (eta + (1 / ((1 - alpha) * T)) * sum(u)), line 124
cvar_term(p, eta, u) ==
    p.lambda_cvar * (Scale(p) * eta + Sgn(OneMinusAlpha(p)) * AlphaDen * Sum(u))

\* kappa * sum(z), line 127
turnover_term(p, z) == p.kappa * Scale(p) * Sum(z)

\* lambda_beta * s * v, line 130
beta_penalty_term(p, v) == p.lambda_beta * p.stress_weight * Scale(p) * v

Objective(p, x) ==
    lpm1_term(p, x.s_lpm) + cvar_term(p, x.eta, x.u)
        + turnover_term(p, x.z) + beta_penalty_term(p, x.v)

(***************************************************************************)
(* The external solver behind problem.solve (lines 144-149).  It searches  *)
(* a finite grid of points: every primary point with entries in -1..Unit,  *)
(* and for every slack 0, each lower bound its constraints give, and the   *)
(* value one step above them all.  The grid holds infeasible points, every *)
(* tight point, and points with loose slacks.                              *)
(***************************************************************************)
CandPrimary(p) ==
    { [w |-> w, w_c |-> c] : w \in [1..p.n_assets -> -1..Unit], c \in -1..Unit }

\* the elements of a length-m operand that meet element k of a length-n variable
Onto(vec, k, n) == IF n = 1 THEN { vec[j] : j \in 1..Len(vec) } ELSE { At(vec, k) }

Corners(bounds) == {0} \cup bounds \cup { SetMax({0} \cup bounds) + 1 }

\* the vectors of length n whose element k lies in E[k]
VecCand(n, E) ==
    { f \in [1..n -> UNION { E[k] : k \in 1..n }] : \A k \in 1..n : f[k] \in E[k] }

CandLpm(p, a) ==
    LET T == p.n_scenarios
        el(t) == Corners({ tau(p) - x : x \in Onto(a, t, T) })
    IN  VecCand(T, Tabulate(el, T))

CandEta(a) ==
    LET pts == { -a[k] : k \in 1..Len(a) }
    IN  pts \cup { SetMin(pts) - 1, SetMax(pts) + 1 }

CandU(p, a, eta) ==
    LET T == p.n_scenarios
        el(t) == Corners({ -x - eta : x \in Onto(a, t, T) })
    IN  VecCand(T, Tabulate(el, T))

CandCvar(p, a) ==
    UNION { { [eta |-> e, u |-> u] : u \in CandU(p, a, e) } : e \in CandEta(a) }

CandTurnover(p, dw) ==
    LET N == p.n_assets
        el(i) == Corners(Onto(dw, i, N) \cup { -x : x \in Onto(dw, i, N) })
    IN  VecCand(N, Tabulate(el, N))

CandBeta(dev) == Corners({ dev, -dev })

\* the members of S with the least F
ArgMin(S, F(_)) ==
    LET valued == { <<y, F(y)>> : y \in S }
        least  == SetMin({ q[2] : q \in valued })
    IN  { q[1] : q \in { r \in valued : r[2] = least } }

\* the optimal slacks of each group at the primary point wp
OptLpm(p, wp) ==
    LET a == active(p, wp)
        term(s) == lpm1_term(p, s)
    IN  ArgMin({ s \in CandLpm(p, a) : LpmSlack(p, a, s) }, term)

OptCvar(p, wp) ==
    LET a == active(p, wp)
        term(c) == cvar_term(p, c.eta, c.u)
    IN  ArgMin({ c \in CandCvar(p, a) : CvarSlack(a, c.eta, c.u) }, term)

OptTurnover(p, wp) ==
    LET dw == delta_w(p, wp)
        term(z) == turnover_term(p, z)
    IN  ArgMin({ z \in CandTurnover(p, dw) : TurnoverSlack(dw, z) }, term)

OptBeta(p, wp) ==
    LET dev == beta_dev(p, wp)
        term(v) == beta_penalty_term(p, v)
    IN  ArgMin({ v \in CandBeta(dev) : BetaSlack(dev, v) }, term)

\* the least objective over the slacks at the primary point wp: the objective
\* is a sum of four terms, each over slacks of its own
LeastAt(p, wp) ==
    LET s == CHOOSE s \in OptLpm(p, wp) : TRUE
        c == CHOOSE c \in OptCvar(p, wp) : TRUE
        z == CHOOSE z \in OptTurnover(p, wp) : TRUE
        v == CHOOSE v \in OptBeta(p, wp) : TRUE
    IN  lpm1_term(p, s) + cvar_term(p, c.eta, c.u) + turnover_term(p, z)
            + beta_penalty_term(p, v)

\* the primary points of the optimal solutions
OptPrimary(p) ==
    LET least(wp) == LeastAt(p, wp)
    IN  ArgMin({ wp \in CandPrimary(p) : FullInvestment(wp) }, least)

MkPoint(wp, s, c, z, v) ==
    [w |-> wp.w, w_c |-> wp.w_c, s_lpm |-> s, eta |-> c.eta, u |-> c.u, z |-> z, v |-> v]

(***************************************************************************)
(* The program is bounded below iff the objective does not decrease along  *)
(* any ray of the feasible set: a slack alone going up, eta going up, or   *)
(* eta going down with every u going up (w and w_c are bounded).           *)
(***************************************************************************)
UnitVec(n, k) == [j \in 1..n |-> IF j = k THEN 1 ELSE 0]

ConstVec(n, c) == [j \in 1..n |-> c]

Bounded(p) ==
    LET N == p.n_assets
        T == p.n_scenarios
    IN  /\ \A t \in 1..T : lpm1_term(p, UnitVec(T, t)) >= 0
        /\ \A t \in 1..T : cvar_term(p, 0, UnitVec(T, t)) >= 0
        /\ cvar_term(p, 1, ConstVec(T, 0)) >= 0
        /\ cvar_term(p, -1, ConstVec(T, 1)) >= 0
        /\ \A i \in 1..N : turnover_term(p, UnitVec(N, i)) >= 0
        /\ beta_penalty_term(p, 1) >= 0

\* what a solver can report (cvxpy's status strings)
OptimalClass == {"optimal", "optimal_inaccurate"}

NonOptimal == {"infeasible", "unbounded", "infeasible_inaccurate", "unbounded_inaccurate"}

(***************************************************************************)
(* The state of one invocation.                                            *)
(*   pc            the place the invocation has reached                    *)
(*   prob          the loaded problem (lines 29-52)                        *)
(*   calls         the solvers problem.solve was called with, in order     *)
(*   status        problem.status                                          *)
(*   primal        the values of the variables after a solve               *)
(*   solution      the solution dict                                       *)
(*   solution_file the content written to solution_file                    *)
(*   exc           the exception that left the function, or "none"         *)
(***************************************************************************)
NoPrimal ==
    [w |-> <<>>, w_c |-> 0, s_lpm |-> <<>>, eta |-> 0, u |-> <<>>, z |-> <<>>, v |-> 0]

\* float('inf') and finite objective values
Infinity == [inf |-> TRUE, num |-> 0]

Finite(n) == [inf |-> FALSE, num |-> n]

NoSolution ==
    [asset_weights |-> <<>>, cash_weight |-> 0, objective_value |-> Finite(0),
     lpm1_value |-> 0, cvar_value |-> 0, turnover |-> 0, beta_penalty |-> 0,
     solver_status |-> "none"]

\* the local variables of a second invocation of the function, which writes
\* the solution file named path: "first" is the file of solution_file,
\* "second" the file of other_file
Locals(at) ==
    [pc |-> at, prob |-> NoProblem, calls |-> <<>>, status |-> "none",
     primal |-> NoPrimal, solution |-> NoSolution, exc |-> "none", path |-> "second"]

\* the few problem files read when two invocations are modelled
PairProblems ==
    { MkProblem(1, 1, Shape(1, 1), BasePrev, Hyper(1, 1, 1, 1, 1), BaseAlpha, JsonNumber(0)),
      MkProblem(1, 1, Shape(1, 1), <<0, 0>>, Hyper(1, 1, 1, 0, 1), BaseAlpha, JsonNumber(0)),
      MkProblem(1, 1, Shape(1, 1), BasePrev, Hyper(1, 1, 1, 1, 1), BaseAlpha, JsonText) }

(***************************************************************************)
(* tune_params.py: the files run_backtest renames and its own position.    *)
(* fs is the directory pricing/regime_downside/data: params.json,          *)
(* params_backup.json and params_temp.json, each missing or holding a      *)
(* content.  Content 0 is the user's params.json, content i >= 1 is the    *)
(* i-th parameter combination of the grid.                                 *)
(***************************************************************************)
Missing == [exists |-> FALSE, content |-> 0]

File(c) == [exists |-> TRUE, content |-> c]

UserFiles(f) == [params |-> f, backup |-> Missing, temp |-> Missing]

\* bt.before and bt.via record, for the properties, what params.json held
\* when run_backtest was entered and the path it left by
Tuning(at, i, rc, ret, via, before) ==
    [pc |-> at, i |-> i, returncode |-> rc, ret |-> ret, via |-> via, before |-> before]

NotTuning == Tuning("absent", 0, 0, "unset", "none", Missing)

\* the problem files an invocation may be given
Inputs == IF other.pc = "absent" THEN Problems ELSE PairProblems

Init ==
    /\ pc = "idle"
    /\ prob = NoProblem
    /\ calls = <<>>
    /\ status = "none"
    /\ primal = NoPrimal
    /\ solution = NoSolution
    /\ solution_file = NoSolution
    /\ exc = "none"
    /\ other = Locals("absent")
    /\ other_file = NoSolution
    /\ fs = UserFiles(Missing)
    /\ bt = NotTuning

\* lines 29-52: load the problem file
Load ==
    /\ pc = "idle"
    /\ \E p \in Inputs : prob' = p
    /\ pc' = "formulate"
    /\ UNCHANGED <<calls, status, primal, solution, solution_file, exc, other, other_file, fs, bt>>

\* lines 54-139: build the variables, the constraints and the objective
Formulate ==
    /\ pc = "formulate"
    /\ IF FormulationError(prob) # "none"
          THEN /\ exc' = FormulationError(prob)
               /\ pc' = "raised"
          ELSE /\ exc' = exc
               /\ pc' = "solveA"
    /\ UNCHANGED <<prob, calls, status, primal, solution, solution_file, other, other_file, fs, bt>>

\* one problem.solve(solver=name) call of lines 144-149
Solve(name, here, onRaise) ==
    /\ pc = here
    /\ calls' = Append(calls, name)
    /\ \/ /\ pc' = onRaise                       \* the call raises
          /\ UNCHANGED <<status, primal>>
       \/ /\ \E st \in NonOptimal : status' = st
          /\ primal' = NoPrimal
          /\ pc' = "extract"
       \/ /\ Bounded(prob)
          /\ \E st \in OptimalClass : status' = st
          /\ \E wp \in OptPrimary(prob) :
                \E s \in OptLpm(prob, wp), c \in OptCvar(prob, wp),
                   z \in OptTurnover(prob, wp), v \in OptBeta(prob, wp) :
                      primal' = MkPoint(wp, s, c, z, v)
          /\ pc' = "extract"
    /\ UNCHANGED <<prob, solution, solution_file, exc, other, other_file, fs, bt>>

\* line 144
SolveCLARABEL == Solve("CLARABEL", "solveA", "solveB")

\* mutant: the second attempt names OSQP, the third solver, instead of SCS
SolveSCS_WrongSolver == Solve("OSQP", "solveB", "solveC")

\* line 147, after the bare except of line 145
SolveSCS == Solve("SCS", "solveB", "solveC")

\* line 149, after the bare except of line 148; a raise reaches line 186
SolveOSQP == Solve("OSQP", "solveC", "handler")

\* mutant: the fallback reports "error" whatever the solver said
Fallback_StatusLost(p, st) ==
    [asset_weights   |-> ToList(w_prev(p)),
     cash_weight     |-> p.prev_cash,
     objective_value |-> Infinity,
     lpm1_value      |-> 0,
     cvar_value      |-> 0,
     turnover        |-> 0,
     beta_penalty    |-> 0,
     solver_status   |-> "error"]

\* mutant: the fallback moves everything to cash instead of keeping the weights
Fallback_AllCash(p, st) ==
    [asset_weights   |-> [i \in 1..w_prev(p).shape[1] |-> 0],
     cash_weight     |-> Unit,
     objective_value |-> Infinity,
     lpm1_value      |-> 0,
     cvar_value      |-> 0,
     turnover        |-> 0,
     beta_penalty    |-> 0,
     solver_status   |-> st]

\* mutant: the fallback keeps the weights of the solution file already on disk
Fallback_LastWritten(p, st) ==
    [asset_weights   |-> IF solution_file = NoSolution
                            THEN ToList(w_prev(p)) ELSE solution_file.asset_weights,
     cash_weight     |-> IF solution_file = NoSolution
                            THEN p.prev_cash ELSE solution_file.cash_weight,
     objective_value |-> Infinity,
     lpm1_value      |-> 0,
     cvar_value      |-> 0,
     turnover        |-> 0,
     beta_penalty    |-> 0,
     solver_status   |-> st]

\* mutant: the fallback reports w_prev but no cash
Fallback_ForgetsCash(p, st) ==
    [asset_weights   |-> ToList(w_prev(p)),
     cash_weight     |-> 0,
     objective_value |-> Infinity,
     lpm1_value      |-> 0,
     cvar_value      |-> 0,
     turnover        |-> 0,
     beta_penalty    |-> 0,
     solver_status   |-> st]

\* lines 154-163 and 189-198: fall back to the previous weights
Fallback(p, st) ==
    [asset_weights   |-> ToList(w_prev(p)),
     cash_weight     |-> p.prev_cash,
     objective_value |-> Infinity,
     lpm1_value      |-> 0,
     cvar_value      |-> 0,
     turnover        |-> 0,
     beta_penalty    |-> 0,
     solver_status   |-> st]

\* mutant: the extraction reads w_prev and w_c_prev instead of w.value and w_c.value
Extracted_PrevWeights(p, x, st) ==
    [asset_weights   |-> ToList(w_prev(p)),
     cash_weight     |-> p.prev_cash,
     objective_value |-> Finite(Objective(p, x)),
     lpm1_value      |-> Abs(OneMinusAlpha(p)) * Sum(x.s_lpm),
     cvar_value      |-> Scale(p) * x.eta + Sgn(OneMinusAlpha(p)) * AlphaDen * Sum(x.u),
     turnover        |-> Sum(x.z),
     beta_penalty    |-> p.stress_weight * x.v,
     solver_status   |-> st]

\* mutant: line 173 multiplies by lambda_beta as line 130 does
Extracted_BetaWithLambda(p, x, st) ==
    [asset_weights   |-> ToList(NpArray(x.w)),
     cash_weight     |-> x.w_c,
     objective_value |-> Finite(Objective(p, x)),
     lpm1_value      |-> Abs(OneMinusAlpha(p)) * Sum(x.s_lpm),
     cvar_value      |-> Scale(p) * x.eta + Sgn(OneMinusAlpha(p)) * AlphaDen * Sum(x.u),
     turnover        |-> Sum(x.z),
     beta_penalty    |-> p.lambda_beta * p.stress_weight * x.v,
     solver_status   |-> st]

\* mutant: line 170 leaves out the factor 1 / T
Extracted_LpmSum(p, x, st) ==
    [asset_weights   |-> ToList(NpArray(x.w)),
     cash_weight     |-> x.w_c,
     objective_value |-> Finite(Objective(p, x)),
     lpm1_value      |-> Scale(p) * Sum(x.s_lpm),
     cvar_value      |-> Scale(p) * x.eta + Sgn(OneMinusAlpha(p)) * AlphaDen * Sum(x.u),
     turnover        |-> Sum(x.z),
     beta_penalty    |-> p.stress_weight * x.v,
     solver_status   |-> st]

\* lines 166-184: extract the solution; lpm1_value and cvar_value are
\* multiplied by Scale(p), like the objective
Extracted(p, x, st) ==
    [asset_weights   |-> ToList(NpArray(x.w)),
     cash_weight     |-> x.w_c,
     objective_value |-> Finite(Objective(p, x)),
     lpm1_value      |-> Abs(OneMinusAlpha(p)) * Sum(x.s_lpm),
     cvar_value      |-> Scale(p) * x.eta + Sgn(OneMinusAlpha(p)) * AlphaDen * Sum(x.u),
     turnover        |-> Sum(x.z),
     beta_penalty    |-> p.stress_weight * x.v,
     solver_status   |-> st]

\* mutant: line 151 accepts "optimal" only
Extract_OptimalOnly ==
    /\ pc = "extract"
    /\ solution' = IF status # "optimal"
                      THEN Fallback(prob, status)
                      ELSE Extracted(prob, primal, status)
    /\ pc' = "save"
    /\ UNCHANGED <<prob, calls, status, primal, solution_file, exc, other, other_file, fs, bt>>

\* lines 151-184
Extract ==
    /\ pc = "extract"
    /\ solution' = IF status \notin {"optimal", "optimal_inaccurate"}
                      THEN Fallback(prob, status)
                      ELSE Extracted(prob, primal, status)
    /\ pc' = "save"
    /\ UNCHANGED <<prob, calls, status, primal, solution_file, exc, other, other_file, fs, bt>>

\* mutant: the handler of line 186 lets the exception go on to the caller
Handler_Reraise ==
    /\ pc = "handler"
    /\ exc' = "SolverError"
    /\ pc' = "raised"
    /\ UNCHANGED <<prob, calls, status, primal, solution, solution_file, other, other_file, fs, bt>>

\* lines 186-198: except Exception
Handler ==
    /\ pc = "handler"
    /\ solution' = Fallback(prob, "error")
    /\ pc' = "save"
    /\ UNCHANGED <<prob, calls, status, primal, solution_file, exc, other, other_file, fs, bt>>

\* lines 200-204: write the solution file and return the solution
Save ==
    /\ pc = "save"
    /\ solution_file' = solution
    /\ pc' = "done"
    /\ UNCHANGED <<prob, calls, status, primal, solution, exc, other, other_file, fs, bt>>

Next ==
    \/ Load
    \/ Formulate
    \/ SolveCLARABEL
    \/ SolveSCS
    \/ SolveOSQP
    \/ Extract
    \/ Handler
    \/ Save

Spec == Init /\ [][Next]_vars

(***************************************************************************)
(* A second invocation of solve_portfolio_lp, in another process or made   *)
(* earlier or later by the same caller.  Its local variables are the       *)
(* record other; its steps are the steps above, taken on that record.  The *)
(* two invocations share the file system only.                             *)
(***************************************************************************)
main == <<pc, prob, calls, status, primal, solution, exc>>

\* mutant: the solution is written to one fixed file, whatever the caller names
SolutionPath_Fixed(l) == "first"

\* lines 200-201: the solution file the caller named (lines 213-214)
SolutionPath(l) == l.path

\* lines 29-52
OtherLoad ==
    /\ other.pc = "idle"
    /\ \E p \in Inputs, f \in {"first", "second"} :
          other' = [other EXCEPT !.pc = "formulate", !.prob = p, !.path = f]
    /\ UNCHANGED <<main, solution_file, other_file, fs, bt>>

\* lines 54-139
OtherFormulate ==
    /\ other.pc = "formulate"
    /\ other' = IF FormulationError(other.prob) # "none"
                   THEN [other EXCEPT !.pc = "raised",
                                      !.exc = FormulationError(other.prob)]
                   ELSE [other EXCEPT !.pc = "solveA"]
    /\ UNCHANGED <<main, solution_file, other_file, fs, bt>>

\* one problem.solve(solver=name) call of lines 144-149
OtherSolve(name, here, onRaise) ==
    /\ other.pc = here
    /\ \/ other' = [other EXCEPT !.pc = onRaise, !.calls = Append(@, name)]
       \/ \E st \in NonOptimal :
             other' = [other EXCEPT !.pc = "extract", !.calls = Append(@, name),
                                    !.status = st, !.primal = NoPrimal]
       \/ /\ Bounded(other.prob)
          /\ \E st \in OptimalClass, wp \in OptPrimary(other.prob) :
                \E s \in OptLpm(other.prob, wp), c \in OptCvar(other.prob, wp),
                   z \in OptTurnover(other.prob, wp), v \in OptBeta(other.prob, wp) :
                      other' = [other EXCEPT !.pc = "extract",
                                             !.calls = Append(@, name),
                                             !.status = st,
                                             !.primal = MkPoint(wp, s, c, z, v)]
    /\ UNCHANGED <<main, solution_file, other_file, fs, bt>>

OtherSolveCLARABEL == OtherSolve("CLARABEL", "solveA", "solveB")

OtherSolveSCS == OtherSolve("SCS", "solveB", "solveC")

OtherSolveOSQP == OtherSolve("OSQP", "solveC", "handler")

\* lines 151-184
OtherExtract ==
    /\ other.pc = "extract"
    /\ other' = [other EXCEPT
                    !.pc = "save",
                    !.solution = IF other.status \notin {"optimal", "optimal_inaccurate"}
                                    THEN Fallback(other.prob, other.status)
                                    ELSE Extracted(other.prob, other.primal, other.status)]
    /\ UNCHANGED <<main, solution_file, other_file, fs, bt>>

\* lines 186-198
OtherHandler ==
    /\ other.pc = "handler"
    /\ other' = [other EXCEPT !.pc = "save",
                              !.solution = Fallback(other.prob, "error")]
    /\ UNCHANGED <<main, solution_file, other_file, fs, bt>>

\* lines 200-204
OtherSave ==
    /\ other.pc = "save"
    /\ other' = [other EXCEPT !.pc = "done"]
    /\ IF SolutionPath(other) = "first"
          THEN solution_file' = other.solution /\ other_file' = other_file
          ELSE other_file' = other.solution /\ solution_file' = solution_file
    /\ UNCHANGED <<main, fs, bt>>

InitTwo ==
    /\ pc = "idle"
    /\ prob = NoProblem
    /\ calls = <<>>
    /\ status = "none"
    /\ primal = NoPrimal
    /\ solution = NoSolution
    /\ solution_file = NoSolution
    /\ exc = "none"
    /\ other = Locals("idle")
    /\ other_file = NoSolution
    /\ fs = UserFiles(Missing)
    /\ bt = NotTuning

NextTwo ==
    \/ Load
    \/ Formulate
    \/ SolveCLARABEL
    \/ SolveSCS
    \/ SolveOSQP
    \/ Extract
    \/ Handler
    \/ Save
    \/ OtherLoad
    \/ OtherFormulate
    \/ OtherSolveCLARABEL
    \/ OtherSolveSCS
    \/ OtherSolveOSQP
    \/ OtherExtract
    \/ OtherHandler
    \/ OtherSave

\* two invocations, their steps interleaved in any order
SpecTwo == InitTwo /\ [][NextTwo]_vars

(***************************************************************************)
(* A sequence of rebalances: the caller starts from an all-cash portfolio  *)
(* and gives every call the asset_weights and cash_weight of the solution  *)
(* before as prev_weights and prev_cash.                                   *)
(***************************************************************************)
AllCashStart == <<0, Unit>>

\* the problem files of the periods, before the previous portfolio is filled in
ChainProblems ==
    { MkProblem(d[1], d[2], Shape(d[1], d[2]), AllCashStart, h, BaseAlpha, JsonNumber(0)) :
        d \in Dims, h \in { Hyper(1, 1, 1, 1, 1), Hyper(1, 1, 1, 1, 2), Hyper(1, 1, 1, 0, 1) } }

\* the next period: a new call on the next problem file, the solution of the
\* call before as its previous portfolio
Rebalance ==
    /\ pc = "done"
    /\ \E p \in ChainProblems :
          /\ p.n_assets = Len(solution.asset_weights)
          /\ prob' = [p EXCEPT !.prev_weights = solution.asset_weights,
                               !.prev_cash = solution.cash_weight]
    /\ pc' = "formulate"
    /\ calls' = <<>>
    /\ status' = "none"
    /\ primal' = NoPrimal
    /\ solution' = NoSolution
    /\ exc' = "none"
    /\ UNCHANGED <<solution_file, other, other_file, fs, bt>>

\* the first call has read its problem file
InitChain ==
    /\ pc = "formulate"
    /\ prob \in ChainProblems
    /\ calls = <<>>
    /\ status = "none"
    /\ primal = NoPrimal
    /\ solution = NoSolution
    /\ solution_file = NoSolution
    /\ exc = "none"
    /\ other = Locals("absent")
    /\ other_file = NoSolution
    /\ fs = UserFiles(Missing)
    /\ bt = NotTuning

NextChain ==
    \/ Formulate
    \/ SolveCLARABEL
    \/ SolveSCS
    \/ SolveOSQP
    \/ Extract
    \/ Handler
    \/ Save
    \/ Rebalance

SpecChain == InitChain /\ [][NextChain]_vars

(***************************************************************************)
(* tune_params.py: parameter_grid_search calls run_backtest once for each  *)
(* of the first combinations of the grid (MaxCombos of them here), one     *)
(* after the other in the same directory.                                  *)
(***************************************************************************)
solver == <<pc, prob, calls, status, primal, solution, solution_file, exc, other, other_file>>

\* lines 133-142: the loop takes the next combination and calls run_backtest
GridNext ==
    /\ bt.pc = "loop"
    /\ bt.i < MaxCombos
    /\ bt' = Tuning("write", bt.i + 1, 0, "unset", "none", fs.params)
    /\ UNCHANGED <<fs, solver>>

\* lines 23-25: write params_dict to params_temp.json, outside the try; an
\* OSError of open leaves run_backtest and the search
WriteTemp ==
    /\ bt.pc = "write"
    /\ \/ /\ fs' = [fs EXCEPT !.temp = File(bt.i)]
          /\ bt' = [bt EXCEPT !.pc = "backup"]
       \/ /\ bt' = [bt EXCEPT !.pc = "raised", !.via = "oserror"]
          /\ UNCHANGED fs
    /\ UNCHANGED solver

\* lines 40-41: rename params.json to params_backup.json if it exists; over an
\* existing backup the rename replaces it (POSIX) or raises FileExistsError
\* (Windows), which line 68 catches
BackupOriginal ==
    /\ bt.pc = "backup"
    /\ \/ /\ ~fs.params.exists
          /\ bt' = [bt EXCEPT !.pc = "swap"]
          /\ UNCHANGED fs
       \/ /\ fs.params.exists
          /\ fs' = [fs EXCEPT !.backup = fs.params, !.params = Missing]
          /\ bt' = [bt EXCEPT !.pc = "swap"]
       \/ /\ fs.params.exists
          /\ fs.backup.exists
          /\ bt' = [bt EXCEPT !.pc = "returned", !.ret = "None", !.via = "exception"]
          /\ UNCHANGED fs
    /\ UNCHANGED solver

\* line 43: params_temp.json becomes params.json
SwapIn ==
    /\ bt.pc = "swap"
    /\ fs' = [fs EXCEPT !.params = fs.temp, !.temp = Missing]
    /\ bt' = [bt EXCEPT !.pc = "run"]
    /\ UNCHANGED solver

\* lines 46-51 and 65-70: subprocess.run completes with a return code, or
\* raises TimeoutExpired after timeout=300, or raises another exception (opam
\* not found); both handlers return None
RunSubprocess ==
    /\ bt.pc = "run"
    /\ \/ \E rc \in {0, 1} : bt' = [bt EXCEPT !.pc = "restore", !.returncode = rc]
       \/ bt' = [bt EXCEPT !.pc = "returned", !.ret = "None", !.via = "timeout"]
       \/ bt' = [bt EXCEPT !.pc = "returned", !.ret = "None", !.via = "exception"]
    /\ UNCHANGED <<fs, solver>>

\* lines 54-56: params.json goes back to params_temp.json and the backup, if
\* there is one, back to params.json
RestoreOriginal ==
    /\ bt.pc = "restore"
    /\ fs' = [params |-> fs.backup, backup |-> Missing, temp |-> fs.params]
    /\ bt' = [bt EXCEPT !.pc = "check"]
    /\ UNCHANGED solver

\* lines 58-63 and 68-70: None for a non-zero return code, else the metrics
\* of parse_results, or None if parse_results raises
CheckResult ==
    /\ bt.pc = "check"
    /\ \/ /\ bt.returncode # 0
          /\ bt' = [bt EXCEPT !.pc = "returned", !.ret = "None", !.via = "returncode"]
       \/ /\ bt.returncode = 0
          /\ bt' = [bt EXCEPT !.pc = "returned", !.ret = "metrics", !.via = "success"]
       \/ /\ bt.returncode = 0
          /\ bt' = [bt EXCEPT !.pc = "returned", !.ret = "None", !.via = "parse"]
    /\ UNCHANGED <<fs, solver>>

\* lines 142-149: run_backtest has returned, the loop goes on
GridContinue ==
    /\ bt.pc = "returned"
    /\ bt' = [bt EXCEPT !.pc = "loop"]
    /\ UNCHANGED <<fs, solver>>

\* the search starts with or without a params.json of the user
InitBacktest ==
    /\ pc = "idle"
    /\ prob = NoProblem
    /\ calls = <<>>
    /\ status = "none"
    /\ primal = NoPrimal
    /\ solution = NoSolution
    /\ solution_file = NoSolution
    /\ exc = "none"
    /\ other = Locals("absent")
    /\ other_file = NoSolution
    /\ fs \in { UserFiles(f) : f \in {Missing, File(0)} }
    /\ bt = Tuning("loop", 0, 0, "unset", "none", Missing)

NextBacktest ==
    \/ GridNext
    \/ WriteTemp
    \/ BackupOriginal
    \/ SwapIn
    \/ RunSubprocess
    \/ RestoreOriginal
    \/ CheckResult
    \/ GridContinue

SpecBacktest == InitBacktest /\ [][NextBacktest]_vars

(***************************************************************************)
(* Predicates on the problem and on the outcome, used by the properties.   *)
(***************************************************************************)
\* the value ranges of the data model: cvar_alpha in (0, 1), the others >= 0
InRange(p) ==
    /\ 0 < p.cvar_alpha /\ p.cvar_alpha < AlphaDen
    /\ p.lambda_lpm1 >= 0 /\ p.lambda_cvar >= 0 /\ p.lambda_beta >= 0
    /\ p.kappa >= 0 /\ p.stress_weight >= 0

\* the dimension invariant of the data model
DimensionsAgree(p) ==
    /\ Len(p.prev_weights) = p.n_assets
    /\ Len(p.asset_betas) = p.n_assets
    /\ \A t \in 1..Len(p.asset_scenarios) : Len(p.asset_scenarios[t]) = p.n_assets
    /\ Len(p.benchmark_scenarios) = p.n_scenarios
    /\ Len(p.cash_scenarios) = p.n_scenarios
    /\ Len(p.asset_scenarios) = p.n_scenarios

\* the function has returned a solution
Returned == pc = "done"

Successful == Returned /\ solution.solver_status \in {"optimal", "optimal_inaccurate"}

\* the invocation has left the loading of the problem behind
Started == pc \notin {"idle", "formulate"}

\* the solution that keeps the previous portfolio, with status tag st
PrevPortfolio(st) ==
    [asset_weights   |-> prob.prev_weights,
     cash_weight     |-> prob.prev_cash,
     objective_value |-> Infinity,
     lpm1_value      |-> 0,
     cvar_value      |-> 0,
     turnover        |-> 0,
     beta_penalty    |-> 0,
     solver_status   |-> st]

(***************************************************************************)
(* C1: when the solve call that returned reports a status other than       *)
(* optimal or optimal_inaccurate, the returned solution is the previous    *)
(* portfolio with objective +infinity, the four metrics 0 and the          *)
(* reported status as solver_status.                                       *)
(***************************************************************************)
C1_NonOptimalStatusFallsBack ==
    (Returned /\ status \in NonOptimal) => solution = PrevPortfolio(status)

C1_Witness ==
    /\ Returned
    /\ status = "infeasible"
    /\ solution.solver_status = "infeasible"
    /\ prob.prev_weights = <<Unit, 0>>

(***************************************************************************)
(* C2: when CLARABEL, SCS and OSQP all raise, no exception reaches the     *)
(* caller and the returned solution is the previous portfolio with         *)
(* solver_status "error".                                                  *)
(***************************************************************************)
C2_AllSolversRaiseFallsBack ==
    (calls = <<"CLARABEL", "SCS", "OSQP">> /\ status = "none") =>
        /\ exc = "none"
        /\ pc \in {"handler", "save", "done"}
        /\ pc \in {"save", "done"} => solution = PrevPortfolio("error")
        /\ pc = "done" => solution_file = solution

C2_Witness ==
    /\ Returned
    /\ calls = <<"CLARABEL", "SCS", "OSQP">>
    /\ status = "none"
    /\ solution.solver_status = "error"

(***************************************************************************)
(* C3 (as claimed): an exception raised while the program is formulated,   *)
(* for a problem that passes validation, is absorbed: no exception reaches *)
(* the caller and the solution is the previous portfolio with              *)
(* solver_status "error".                                                  *)
(***************************************************************************)
C3_FormulationErrorAbsorbed ==
    (Started /\ DimensionsAgree(prob) /\ InRange(prob)
        /\ FormulationError(prob) # "none") =>
        /\ exc = "none"
        /\ pc # "raised"
        /\ Returned => solution = PrevPortfolio("error")

(***************************************************************************)
(* C4: every returned solution is either the solver's values of w and w_c  *)
(* under an optimal-class status with a finite objective, or the previous  *)
(* portfolio with objective +infinity under a status that is not of the    *)
(* optimal class.                                                          *)
(***************************************************************************)
C4_OptimumOrPrevious ==
    Returned =>
        \/ /\ solution.solver_status \in {"optimal", "optimal_inaccurate"}
           /\ solution.solver_status = status
           /\ solution.asset_weights = primal.w
           /\ solution.cash_weight = primal.w_c
           /\ ~solution.objective_value.inf
        \/ /\ solution.solver_status \notin {"optimal", "optimal_inaccurate"}
           /\ solution.asset_weights = prob.prev_weights
           /\ solution.cash_weight = prob.prev_cash
           /\ solution.objective_value = Infinity

C4_Witness ==
    /\ Returned
    /\ solution.solver_status = "optimal"
    /\ solution.asset_weights # prob.prev_weights
    /\ solution.asset_weights = primal.w

(***************************************************************************)
(* C5 (as claimed): a problem with cvar_alpha outside (0, 1) or a negative *)
(* lambda_lpm1, lambda_cvar, lambda_beta, kappa or stress_weight fails     *)
(* with a ValidationError before any solver is called, and no solution is  *)
(* built or written.                                                       *)
(***************************************************************************)
C5_OutOfRangeRejected ==
    (Started /\ ~InRange(prob)) =>
        /\ pc = "raised"
        /\ exc = "ValidationError"
        /\ calls = <<>>
        /\ solution = NoSolution
        /\ solution_file = NoSolution

(***************************************************************************)
(* C6 (as claimed): a problem whose array lengths disagree with n_assets   *)
(* or n_scenarios fails before any solver is called, and no solution with  *)
(* a solver_status is built or written.                                    *)
(***************************************************************************)
C6_DimensionMismatchRejected ==
    (Started /\ ~DimensionsAgree(prob)) =>
        /\ pc = "raised"
        /\ calls = <<>>
        /\ solution = NoSolution
        /\ solution_file = NoSolution

(***************************************************************************)
(* C7: in every successful solution the asset weights and the cash weight  *)
(* sum to 1, whatever the previous weights sum to.                         *)
(***************************************************************************)
C7_BudgetOnSuccess ==
    Successful => Sum(solution.asset_weights) + solution.cash_weight = Unit

C7_Witness ==
    /\ Successful
    /\ Sum(prob.prev_weights) + prob.prev_cash # Unit

(***************************************************************************)
(* C8: in every fallback solution the weights sum to 1 exactly when the    *)
(* previous weights and previous cash of the problem sum to 1.             *)
(***************************************************************************)
C8_BudgetOnFallback ==
    (Returned /\ ~Successful) =>
        ((Sum(solution.asset_weights) + solution.cash_weight = Unit)
            <=> (Sum(prob.prev_weights) + prob.prev_cash = Unit))

C8_Witness ==
    /\ Returned
    /\ ~Successful
    /\ Sum(prob.prev_weights) + prob.prev_cash # Unit
    /\ Sum(solution.asset_weights) + solution.cash_weight # Unit

(***************************************************************************)
(* C9: in every successful solution every asset weight and the cash weight *)
(* are nonnegative, whatever the signs of the previous weights.            *)
(***************************************************************************)
C9_LongOnlyOnSuccess ==
    Successful =>
        /\ \A i \in 1..Len(solution.asset_weights) : solution.asset_weights[i] >= 0
        /\ solution.cash_weight >= 0

C9_Witness ==
    /\ Successful
    /\ \E i \in 1..Len(prob.prev_weights) : prob.prev_weights[i] < 0

(***************************************************************************)
(* C10 (as claimed): for every valid problem, kappa = 0 included, the      *)
(* turnover of a successful solution is the sum over the assets of         *)
(* |asset_weights[i] - prev_weights[i]|.                                   *)
(***************************************************************************)
C10_TurnoverIsAbsoluteChange ==
    (Successful /\ DimensionsAgree(prob) /\ InRange(prob)) =>
        solution.turnover =
            Sum([i \in 1..prob.n_assets |->
                    Abs(solution.asset_weights[i] - prob.prev_weights[i])])

(***************************************************************************)
(* C11: with lambda_lpm1 = lambda_cvar = lambda_beta = 0, kappa > 0 and    *)
(* previous weights that are nonnegative and sum to at most 1, a           *)
(* successful solution has asset_weights = prev_weights and turnover 0     *)
(* and is the point the solver returned; and for every optimum the solver  *)
(* can return, the problem with that optimum fed back as the previous      *)
(* portfolio has the same weight vector as its only optimum.               *)
(***************************************************************************)
PureTurnover(p) ==
    /\ DimensionsAgree(p)
    /\ p.lambda_lpm1 = 0 /\ p.lambda_cvar = 0 /\ p.lambda_beta = 0
    /\ p.kappa > 0
    /\ NonNeg(p.prev_weights)
    /\ Sum(p.prev_weights) <= Unit

FedBack(p, sol) ==
    [p EXCEPT !.prev_weights = sol.asset_weights, !.prev_cash = sol.cash_weight]

C11_PureTurnoverKeepsPrevious ==
    /\ (Successful /\ PureTurnover(prob)) =>
          /\ solution.asset_weights = prob.prev_weights
          /\ solution.turnover = 0
          /\ solution.asset_weights = primal.w
          /\ solution.cash_weight = primal.w_c
          /\ PureTurnover(FedBack(prob, solution))
    /\ (pc = "solveA" /\ PureTurnover(prob)) =>
          \A wp \in OptPrimary(prob) :
              LET fed == FedBack(prob, [asset_weights |-> wp.w, cash_weight |-> wp.w_c])
              IN  /\ Bounded(fed)
                  /\ \A wp2 \in OptPrimary(fed) : wp2.w = wp.w

C11_Witness ==
    /\ Successful
    /\ PureTurnover(prob)
    /\ prob.n_assets = 2
    /\ prob.prev_weights = <<1, 0>>
    /\ solution.asset_weights = <<1, 0>>
    /\ solution.cash_weight = Unit - 1

(***************************************************************************)
(* C12: with every other field of the problem fixed, the beta deviation    *)
(* |betas . w - beta_target| of every optimum the solver can return, whose *)
(* w a successful solution reports as asset_weights, is not larger than    *)
(* that of any optimum of the problem with a smaller stress_weight s1      *)
(* (0 <= s1 < stress_weight, lambda_beta > 0).  With s1 = stress_weight,   *)
(* or with lambda_beta = 0, the two programs have the same objective       *)
(* lambda_beta * s * v and are one program.                                *)
(***************************************************************************)
BetaDeviation(p, w) ==
    Abs(Sum([i \in 1..p.n_assets |-> p.asset_betas[i] * w[i]]) - Unit * p.beta_target)

WithStress(p, s1) == [p EXCEPT !.stress_weight = s1]

C12_DeviationNonIncreasingInStress ==
    /\ Successful =>
          /\ solution.asset_weights = primal.w
          /\ solution.beta_penalty = prob.stress_weight * primal.v
    /\ (pc = "solveA" /\ DimensionsAgree(prob) /\ InRange(prob) /\ prob.lambda_beta > 0) =>
          \A s1 \in 0..(prob.stress_weight - 1) :
              /\ Bounded(WithStress(prob, s1))
              /\ \A wp2 \in OptPrimary(prob), wp1 \in OptPrimary(WithStress(prob, s1)) :
                    BetaDeviation(prob, wp2.w) <= BetaDeviation(prob, wp1.w)

\* a solution for stress_weight 2 that deviates less than an optimum for stress_weight 1
C12_Witness ==
    /\ Successful
    /\ DimensionsAgree(prob) /\ InRange(prob)
    /\ prob.lambda_beta > 0
    /\ prob.stress_weight = 2
    /\ \E wp1 \in OptPrimary(WithStress(prob, 1)) :
          BetaDeviation(prob, solution.asset_weights) < BetaDeviation(prob, wp1.w)

(***************************************************************************)
(* C13 (as claimed): the solver_status of every solution that is built is  *)
(* one of optimal, optimal_inaccurate, infeasible, unbounded, error,       *)
(* whatever status the solver reports.                                     *)
(***************************************************************************)
C13_StatusInClosedSet ==
    pc \in {"save", "done"} =>
        solution.solver_status \in
            {"optimal", "optimal_inaccurate", "infeasible", "unbounded", "error"}

(***************************************************************************)
(* C14: every solver call appends the next name of the order CLARABEL,     *)
(* SCS, OSQP to the calls made so far, and is made only while no call has  *)
(* returned: SCS is called only after CLARABEL raised, OSQP only after     *)
(* both raised, none twice, and none after a call that returned.           *)
(***************************************************************************)
Order == <<"CLARABEL", "SCS", "OSQP">>

C14_FixedOrderOnRaise ==
    [][calls' # calls =>
          /\ status = "none"
          /\ Len(calls) < Len(Order)
          /\ calls' = SubSeq(Order, 1, Len(calls) + 1)]_vars

C14_Witness ==
    /\ Returned
    /\ calls = Order
    /\ status = "optimal"

(***************************************************************************)
(* C15 (as claimed): the solvers are tried in order until one reports an   *)
(* acceptable status: once the cascade is over, either the status is       *)
(* optimal or optimal_inaccurate, or every solver of the list was tried.   *)
(***************************************************************************)
C15_TriedUntilAcceptable ==
    pc \in {"extract", "save", "done"} =>
        \/ status \in {"optimal", "optimal_inaccurate"}
        \/ calls = Order

(***************************************************************************)
(* C16: a solver result with status optimal_inaccurate ends the cascade    *)
(* and is returned like an optimal one: the solution has the solver's w    *)
(* and w_c, a finite objective and solver_status optimal_inaccurate.       *)
(***************************************************************************)
C16_InaccurateAccepted ==
    status = "optimal_inaccurate" =>
        /\ pc \in {"extract", "save", "done"}
        /\ pc \in {"save", "done"} =>
              /\ solution.solver_status = "optimal_inaccurate"
              /\ solution.asset_weights = primal.w
              /\ solution.cash_weight = primal.w_c
              /\ ~solution.objective_value.inf
        /\ pc = "done" => solution_file = solution

C16_Witness ==
    /\ Returned
    /\ status = "optimal_inaccurate"
    /\ calls = <<"CLARABEL">>
    /\ solution.solver_status = "optimal_inaccurate"
    /\ solution.asset_weights # prob.prev_weights

(***************************************************************************)
(* C17: with n_scenarios = 1 and otherwise valid inputs the invocation     *)
(* raises nothing, the formulated program is bounded and has an optimum,   *)
(* a solver answer of the optimal class is returned as a successful        *)
(* solution, and the error fallback arises only from all three solver      *)
(* calls raising.                                                          *)
(***************************************************************************)
SingleScenario(p) ==
    /\ p.n_scenarios = 1
    /\ DimensionsAgree(p)
    /\ InRange(p)
    /\ p.lpm_threshold.num

MainLocals ==
    [pc |-> pc, prob |-> prob, calls |-> calls, status |-> status,
     primal |-> primal, solution |-> solution, exc |-> exc, path |-> "first"]

Decision(sol) ==
    [asset_weights |-> sol.asset_weights, cash_weight |-> sol.cash_weight,
     fallback |-> sol.objective_value.inf, turnover |-> sol.turnover,
     solver_status |-> sol.solver_status]

OwnDecision(l) ==
    IF l.status \in {"optimal", "optimal_inaccurate"}
       THEN [asset_weights |-> l.primal.w, cash_weight |-> l.primal.w_c,
             fallback |-> FALSE, turnover |-> Sum(l.primal.z),
             solver_status |-> l.status]
       ELSE [asset_weights |-> l.prob.prev_weights, cash_weight |-> l.prob.prev_cash,
             fallback |-> TRUE, turnover |-> 0,
             solver_status |-> IF l.status = "none" THEN "error" ELSE l.status]

(***************************************************************************)
(* C19: when two invocations with distinct solution files run with their   *)
(* steps interleaved in any order, each returns the solution its own       *)
(* problem and solver responses determine, and each solution file holds    *)
(* the solution of its own invocation.                                     *)
(***************************************************************************)
C19_ConcurrentInvocationsIndependent ==
    other.path = "second" =>
        /\ Returned =>
              /\ Decision(solution) = OwnDecision(MainLocals)
              /\ solution_file = solution
        /\ other.pc = "done" =>
              /\ Decision(other.solution) = OwnDecision(other)
              /\ other_file = other.solution

C19_Witness ==
    /\ Returned
    /\ other.pc = "done"
    /\ other.path = "second"
    /\ prob # other.prob
    /\ solution.solver_status = "optimal"
    /\ other.solution.solver_status = "infeasible"
    /\ solution_file = solution
    /\ other_file = other.solution

(***************************************************************************)
(* C20: the solution an invocation returns is the one its own problem and  *)
(* solver responses determine, whatever another invocation (successful,    *)
(* fallback or failed) did before it, the same solution file included.     *)
(***************************************************************************)
C20_NoStateAcrossInvocations ==
    /\ Returned => Decision(solution) = OwnDecision(MainLocals)
    /\ other.pc = "done" => Decision(other.solution) = OwnDecision(other)

\* a fallback returned after an earlier invocation wrote a successful solution
\* with other weights to the same solution file
C20_Witness ==
    /\ Returned
    /\ solution.solver_status = "error"
    /\ other.pc = "done"
    /\ other.path = "first"
    /\ other.solution.solver_status = "optimal"
    /\ other.solution.asset_weights # solution.asset_weights
    /\ solution_file = solution

(***************************************************************************)
(* C21: on a successful solve the four metrics are the solver's slack      *)
(* values: lpm1_value = sum(s_lpm) / T, cvar_value = eta + sum(u) /        *)
(* ((1 - alpha) * T), turnover = sum(z), beta_penalty = stress_weight * v  *)
(* without lambda_beta.  lpm1_value and cvar_value are stored multiplied   *)
(* by T * (AlphaDen - cvar_alpha), which is positive on every success.     *)
(***************************************************************************)
C21_MetricsFromSlacks ==
    Successful =>
        LET T == prob.n_scenarios
            oma == AlphaDen - prob.cvar_alpha
        IN  /\ oma > 0
            /\ solution.lpm1_value * T = (T * oma) * Sum(primal.s_lpm)
            /\ solution.cvar_value = (T * oma) * primal.eta + AlphaDen * Sum(primal.u)
            /\ solution.turnover = Sum(primal.z)
            /\ solution.beta_penalty = prob.stress_weight * primal.v

C21_Witness ==
    /\ Successful
    /\ prob.lambda_beta = 0
    /\ prob.stress_weight > 0
    /\ primal.v > 0
    /\ Sum(primal.s_lpm) > 0
    /\ Sum(primal.u) > 0
    /\ solution.beta_penalty = prob.stress_weight * primal.v

(***************************************************************************)
(* C22: for every successful solution objective_value = lambda_lpm1 *      *)
(* lpm1_value + lambda_cvar * cvar_value + kappa * turnover + lambda_beta  *)
(* * beta_penalty; the objective, lpm1_value and cvar_value are stored     *)
(* multiplied by T * (AlphaDen - cvar_alpha), turnover and beta_penalty    *)
(* are not.                                                                *)
(***************************************************************************)
C22_ObjectiveIsSumOfMetrics ==
    Successful =>
        LET K == prob.n_scenarios * (AlphaDen - prob.cvar_alpha)
        IN  /\ ~solution.objective_value.inf
            /\ solution.objective_value.num =
                  prob.lambda_lpm1 * solution.lpm1_value
                    + prob.lambda_cvar * solution.cvar_value
                    + prob.kappa * K * solution.turnover
                    + prob.lambda_beta * K * solution.beta_penalty

C22_Witness ==
    /\ Successful
    /\ prob.n_scenarios = 2
    /\ solution.lpm1_value > 0
    /\ solution.cvar_value > 0
    /\ solution.turnover > 0
    /\ solution.beta_penalty > 0
    /\ solution.objective_value.num > 0

(***************************************************************************)
(* C23: for every formulated problem with dimensions that agree and values *)
(* in range the program is bounded below: the objective does not decrease  *)
(* along any ray of the feasible set, and at every feasible primary point  *)
(* the CVaR term with eta far below or far above the scenario losses (u    *)
(* tight) is not below its least value on the grid.                        *)
(***************************************************************************)
TightU(a, eta) == [t \in 1..Len(a) |-> Max2(0, -a[t] - eta)]

FarEta(a) == 4 * (1 + SetMax({ Abs(a[t]) : t \in 1..Len(a) }))

C23_BoundedBelow ==
    (pc = "solveA" /\ DimensionsAgree(prob) /\ InRange(prob)) =>
        /\ Bounded(prob)
        /\ \A wp \in { q \in CandPrimary(prob) : FullInvestment(q) } :
              LET a == active(prob, wp)
                  best == CHOOSE c \in OptCvar(prob, wp) : TRUE
              IN  \A eta \in { -FarEta(a), FarEta(a) } :
                      /\ CvarSlack(a, eta, TightU(a, eta))
                      /\ cvar_term(prob, eta, TightU(a, eta))
                            >= cvar_term(prob, best.eta, best.u)

C23_Witness ==
    /\ pc = "solveA"
    /\ DimensionsAgree(prob)
    /\ InRange(prob)
    /\ prob.lambda_cvar > 0
    /\ prob.n_scenarios = 2
    /\ prob.n_assets = 2
    /\ Bounded(prob)

(***************************************************************************)
(* The active returns and the beta deviation of the weights a solution     *)
(* reports, for a problem whose dimensions agree.                          *)
(***************************************************************************)
ReturnedActive(p, sol) ==
    [t \in 1..p.n_scenarios |->
        Sum([i \in 1..p.n_assets |-> p.asset_scenarios[t][i] * sol.asset_weights[i]])
            + p.cash_scenarios[t] * sol.cash_weight
            - Unit * p.benchmark_scenarios[t]]

\* T * (AlphaDen - alpha) times eta + sum_t max(0, -a[t] - eta) / ((1 - alpha) * T)
CvarAt(p, a, eta) ==
    p.n_scenarios * (AlphaDen - p.cvar_alpha) * eta
        + AlphaDen * Sum([t \in 1..Len(a) |-> Max2(0, -a[t] - eta)])

(***************************************************************************)
(* C24 (as claimed): in every successful solution of a valid problem the   *)
(* downside slack is tight, s_lpm[t] = max(0, lpm_threshold - a[t]) at the *)
(* returned weights, and lpm1_value is the mean of these maxima (stored    *)
(* multiplied by T * (AlphaDen - cvar_alpha)).                             *)
(***************************************************************************)
C24_LpmSlackTight ==
    (Successful /\ DimensionsAgree(prob) /\ InRange(prob)) =>
        LET a == ReturnedActive(prob, solution)
            shortfall == [t \in 1..prob.n_scenarios |->
                             Max2(0, Unit * prob.lpm_threshold.val - a[t])]
        IN  /\ primal.s_lpm = shortfall
            /\ solution.lpm1_value = (AlphaDen - prob.cvar_alpha) * Sum(shortfall)

(***************************************************************************)
(* C25 (as claimed): in every successful solution of a valid problem the   *)
(* beta slack is tight, v = |betas . w - beta_target|, and beta_penalty =  *)
(* stress_weight * |betas . asset_weights - beta_target|.                  *)
(***************************************************************************)
C25_BetaSlackTight ==
    (Successful /\ DimensionsAgree(prob) /\ InRange(prob)) =>
        /\ primal.v = BetaDeviation(prob, solution.asset_weights)
        /\ solution.beta_penalty =
              prob.stress_weight * BetaDeviation(prob, solution.asset_weights)

(***************************************************************************)
(* C26 (as claimed): in every successful solution of a valid problem       *)
(* cvar_value is the minimum over eta of eta + sum_t max(0, -a[t] - eta) / *)
(* ((1 - alpha) * T) at the returned weights, and the solver's eta attains *)
(* it.  The minimum of this piecewise linear convex function is attained   *)
(* at one of the scenario losses -a[t].                                    *)
(***************************************************************************)
C26_CvarValueIsScenarioCvar ==
    (Successful /\ DimensionsAgree(prob) /\ InRange(prob)) =>
        LET a == ReturnedActive(prob, solution)
            least == SetMin({ CvarAt(prob, a, -a[t]) : t \in 1..prob.n_scenarios })
        IN  /\ solution.cvar_value = least
            /\ CvarAt(prob, a, primal.eta) = least

(***************************************************************************)
(* C27: for every formulated problem whose dimensions agree, whatever its  *)
(* scenario data, previous weights, betas and hyperparameters, the point   *)
(* w = 0, w_c = 1 with slacks large enough satisfies all the constraints   *)
(* of the program, and the solver's search finds feasible points.          *)
(***************************************************************************)
AllCash(p) == [w |-> [i \in 1..p.n_assets |-> 0], w_c |-> Unit]

\* the point w = 0, w_c = 1 with every slack one above what its constraints ask
AllCashPoint(p) ==
    LET wp == AllCash(p)
        a  == active(p, wp)
        dw == delta_w(p, wp)
    IN  [w |-> wp.w, w_c |-> wp.w_c,
         s_lpm |-> [t \in 1..p.n_scenarios |-> Max2(0, tau(p) - a[t]) + 1],
         eta   |-> 0,
         u     |-> [t \in 1..p.n_scenarios |-> Max2(0, -a[t]) + 1],
         z     |-> [i \in 1..p.n_assets |-> Abs(dw[i]) + 1],
         v     |-> Abs(beta_dev(p, wp)) + 1]

C27_AlwaysFeasible ==
    (pc = "solveA" /\ DimensionsAgree(prob)) =>
        /\ Feasible(prob, AllCashPoint(prob))
        /\ \E wp \in CandPrimary(prob) :
              /\ FullInvestment(wp)
              /\ \E s \in CandLpm(prob, active(prob, wp)) :
                    LpmSlack(prob, active(prob, wp), s)

C27_Witness ==
    /\ pc = "solveA"
    /\ DimensionsAgree(prob)
    /\ prob.lambda_lpm1 < 0
    /\ prob.n_assets = 2
    /\ prob.n_scenarios = 2
    /\ Feasible(prob, AllCashPoint(prob))

(***************************************************************************)
(* C28: in a sequence of rebalances that starts from a nonnegative         *)
(* portfolio summing to 1 and hands every solution on as the next previous *)
(* portfolio, every solution, successful or fallback, has nonnegative      *)
(* asset weights and cash summing to 1, and so has every previous          *)
(* portfolio handed on.                                                    *)
(***************************************************************************)
C28_ChainKeepsPortfolioValid ==
    /\ NonNeg(prob.prev_weights)
    /\ prob.prev_cash >= 0
    /\ Sum(prob.prev_weights) + prob.prev_cash = Unit
    /\ pc \in {"save", "done"} =>
          /\ NonNeg(solution.asset_weights)
          /\ solution.cash_weight >= 0
          /\ Sum(solution.asset_weights) + solution.cash_weight = Unit

\* a fallback that keeps a portfolio an earlier successful rebalance invested
C28_Witness ==
    /\ Returned
    /\ solution.solver_status \in {"infeasible", "error"}
    /\ Sum(solution.asset_weights) > 0
    /\ prob.prev_weights = solution.asset_weights
    /\ solution_file = solution

(***************************************************************************)
(* C29: whenever run_backtest has returned, by whichever path, params.json *)
(* holds what it held when run_backtest was entered and no                 *)
(* params_backup.json is left.                                             *)
(***************************************************************************)
C29_ParamsRestored ==
    bt.pc = "returned" => (fs.params = bt.before /\ ~fs.backup.exists)

====
